---- MODULE Spec2Model ----
(***************************************************************************)
(* The agent turn of src/server.ts: consultAgent(userQuery) drives one     *)
(* conversational turn through model <-> tool round trips, with a cap on   *)
(* the function-call loop, a retry loop with exponential backoff around    *)
(* the whole attempt, and a lexical classification of the failure that     *)
(* ends the turn.                                                          *)
(*                                                                         *)
(* One behaviour of the model is one call of consultAgent.  The steps are  *)
(* the suspension points of the async function: every action runs the code *)
(* from one await to the next one (or to the return / throw).              *)
(*                                                                         *)
(* JavaScript values that may be undefined are modelled as follows:        *)
(*   - an optional string is the string Undefined or the string itself;    *)
(*   - an optional structured value is <<>> (undefined) or <<v>>;          *)
(*   - response.functionCalls is <<>> (undefined) or a non-empty sequence  *)
(*     of calls: the SDK getter yields undefined, never an empty array.    *)
(***************************************************************************)
EXTENDS Naturals, Sequences, FiniteSets

(***************************************************************************)
(* Bounds of the model.                                                    *)
(***************************************************************************)
MaxCalls == 2      \* longest functionCalls list of one model response
MaxChunks == 2     \* longest groundingChunks list of one model response
MaxMarkers == 2    \* most classifier markers occurring in one error message

Undefined == "<undefined>"

Truthy(s) == s # Undefined /\ s # ""

\* a || b of JavaScript, on optional strings
Or(a, b) == IF Truthy(a) THEN a ELSE b

SeqsUpTo(S, n) == UNION {[1..k -> S] : k \in 0..n}

(***************************************************************************)
(* Inputs: the environment, the user query, what the Model Service and the *)
(* Tool Executor may answer.                                               *)
(***************************************************************************)
KeyValues == {Undefined, "", "key"}

Envs == [API_KEY : KeyValues, GEMINI_API_KEY : KeyValues]

Queries == {"List my repos"}

\* calls the model may emit; the id of a call is optional in the SDK
ToolCalls ==
    { [id |-> "1", name |-> "list_github_repos", args |-> "{}"],
      [id |-> Undefined, name |-> "send_gmail", args |-> "{to,subject,body}"] }

Webs == { [uri |-> "https://x", title |-> "X"],
          [uri |-> "https://y", title |-> "Y"] }

\* a grounding chunk carries a web citation or none (e.g. retrieved context)
Chunks == {[web |-> <<>>]} \cup {[web |-> <<w>>] : w \in Webs}

Texts == {"", "Here are your repos: r1."}

\* response.functionCalls
CallLists == SeqsUpTo(ToolCalls, MaxCalls)

\* response.candidates?.[0]?.groundingMetadata?.groundingChunks
ChunkLists == {<<>>} \cup {<<cs>> : cs \in SeqsUpTo(Chunks, MaxChunks)}

\* GenerateContentResponse as far as consultAgent reads it
Responses == [text : Texts, functionCalls : CallLists, groundingChunks : ChunkLists]

NoResponse == [text |-> Undefined, functionCalls |-> <<>>, groundingChunks |-> <<>>]

(***************************************************************************)
(* Error messages.  The code only asks whether the message includes one of *)
(* eight fixed substrings, none of which contains another, so a message is *)
(* modelled by the set of those markers that occur in it.                  *)
(***************************************************************************)
Markers == {"500", "INTERNAL", "Service Unavailable", "Deadline Exceeded",
            "429", "RESOURCE_EXHAUSTED", "API_KEY_INVALID", "invalid API key"}

ErrorMessages == {m \in SUBSET Markers : Cardinality(m) <= MaxMarkers}

\* error.message?.includes(marker)
Includes(message, marker) == marker \in message

NoError == {"<none>"}

(***************************************************************************)
(* The Tool Executor (POST /api/tools/execute) as seen by the fetch of the *)
(* dispatcher: the request fails on the network, or a reply with a status  *)
(* and a body arrives.  400, 404 and 500 replies carry a JSON error body;  *)
(* a reply of a proxy in front of the server carries a body that is not    *)
(* JSON.                                                                   *)
(***************************************************************************)
JsonBodies == {"[{name:r1,url:https://x,description:d}]",
               "{error:GitHub not connected}",
               "{error:Tool not found}",
               "{error:Failed to send email}"}

ToolReplies ==
    { [status |-> 200, body |-> "[{name:r1,url:https://x,description:d}]"],
      [status |-> 400, body |-> "{error:GitHub not connected}"],
      [status |-> 404, body |-> "{error:Tool not found}"],
      [status |-> 500, body |-> "{error:Failed to send email}"],
      [status |-> 502, body |-> "<html>Bad Gateway</html>"] }

\* res.json(): <<value>>, or <<>> when the body is not JSON (it throws)
ParseJson(body) == IF body \in JsonBodies THEN <<[json |-> body]>> ELSE <<>>

\* message of the error thrown by a failed fetch / by res.json()
NetworkErrorMessage == "fetch failed"

SyntaxErrorMessage == "Unexpected token < in JSON"

\* outcomes of one tool invocation: <<>> is a rejected fetch, <<reply>> a reply
ToolOutcomes == {<<>>} \cup {<<rep>> : rep \in ToolReplies}

\* the invocation failed: network error, non-2xx reply or malformed body
ToolFailed(o) == o = <<>> \/ o[1].status \notin 200..299 \/ ParseJson(o[1].body) = <<>>

\* body of the try / catch around one tool call: the entry pushed for `call`
FunctionResponse(call, o) ==
    IF o = <<>>
    THEN [name |-> call.name, response |-> [error |-> NetworkErrorMessage], id |-> call.id]
    ELSE IF ParseJson(o[1].body) = <<>>
    THEN [name |-> call.name, response |-> [error |-> SyntaxErrorMessage], id |-> call.id]
    ELSE [name |-> call.name, response |-> [content |-> ParseJson(o[1].body)[1]],
          id |-> call.id]

\* JSON.stringify of one entry: a property whose value is undefined is left out
StringifyEntry(e) ==
    IF e.id = Undefined
    THEN [name |-> e.name, response |-> e.response]
    ELSE [name |-> e.name, response |-> e.response, id |-> e.id]

\* JSON.stringify(functionResponses)
Stringify(entries) == [i \in 1..Len(entries) |-> StringifyEntry(entries[i])]

(***************************************************************************)
(* Outbound requests.                                                      *)
(***************************************************************************)
NoRequest == [to |-> "none"]

\* a slip: the message sent is not the query the function was called with
QueryMessage_Blank(q) == [to |-> "model", kind |-> "query", text |-> ""]

\* chat.sendMessage({ message: userQuery })
QueryMessage(q) == [to |-> "model", kind |-> "query", text |-> q]

\* a slip: the message is built from the first entry alone
ResultsMessage_FirstOnly(entries) ==
    [to |-> "model", kind |-> "results", items |-> Stringify(SubSeq(entries, 1, 1))]

\* chat.sendMessage({ message: JSON.stringify(functionResponses) })
ResultsMessage(entries) == [to |-> "model", kind |-> "results", items |-> Stringify(entries)]

\* fetch("/api/tools/execute", { body: JSON.stringify({ tool, args }) })
ToolRequest(call) == [to |-> "tool", tool |-> call.name, args |-> call.args]

(***************************************************************************)
(* The fixed responses of consultAgent.                                    *)
(***************************************************************************)
MissingKeyResponse == [text |-> "## API Key Missing", sources |-> <<>>]

QuotaResponse == [text |-> "## Quota Exhausted", sources |-> <<>>]

InvalidKeyResponse == [text |-> "## Invalid API Key", sources |-> <<>>]

InternalErrorResponse == [text |-> "## Gemini Internal Error", sources |-> <<>>]

GenericFailureResponse ==
    [text |-> "Failed to get a response after multiple attempts.", sources |-> <<>>]

NoResult == [text |-> Undefined, sources |-> <<>>]

maxRetries == 3

MaxIterations == 5

RECURSIVE Pow(_, _)
\* Math.pow(b, n)
Pow(b, n) == IF n = 0 THEN 1 ELSE b * Pow(b, n - 1)

\* a slip: the delay computed from the count before its increment
Delay_BeforeIncrement(count) == Pow(2, count - 1) * 1000

\* const delay = Math.pow(2, retryCount) * 1000
Delay(count) == Pow(2, count) * 1000

RECURSIVE Dedup(_)
Dedup(s) ==
    IF s = <<>> THEN <<>>
    ELSE LET front == Dedup(SubSeq(s, 1, Len(s) - 1))
         IN  IF \E i \in DOMAIN front : front[i] = s[Len(s)]
             THEN front ELSE Append(front, s[Len(s)])

\* a slip: citations of the same page are merged
Sources_Deduplicated(chunks) ==
    LET kept == SelectSeq(chunks, LAMBDA c : c.web # <<>>)
    IN  Dedup([i \in 1..Len(kept) |->
                 [uri |-> kept[i].web[1].uri, title |-> kept[i].web[1].title]])

\* chunks.filter(chunk => chunk.web).map(chunk => ({ uri, title }))
Sources(chunks) ==
    LET kept == SelectSeq(chunks, LAMBDA c : c.web # <<>>)
    IN  [i \in 1..Len(kept) |-> [uri |-> kept[i].web[1].uri, title |-> kept[i].web[1].title]]

\* the value returned at the end of a successful attempt
BuildResponse(r) ==
    [ text |-> Or(r.text, "Task completed."),
      sources |-> IF r.groundingChunks # <<>> THEN Sources(r.groundingChunks[1]) ELSE <<>> ]

\* a slip: a rate-limit failure taken for a transient one
IsTransient_With429(message) ==
    \/ Includes(message, "500")
    \/ Includes(message, "INTERNAL")
    \/ Includes(message, "Service Unavailable")
    \/ Includes(message, "Deadline Exceeded")
    \/ Includes(message, "429")

\* const isTransient = ...
IsTransient(message) ==
    \/ Includes(message, "500")
    \/ Includes(message, "INTERNAL")
    \/ Includes(message, "Service Unavailable")
    \/ Includes(message, "Deadline Exceeded")

\* a slip: the test of the retry count left out
ShouldRetry_NoLimit(message, count) == IsTransient(message)

\* a slip: every failure is retried while attempts remain
ShouldRetry_AnyError(message, count) == count < maxRetries - 1

\* the retry decision of the catch block
ShouldRetry(message, count) == IsTransient(message) /\ count < maxRetries - 1

\* a slip: the internal-error test placed first, as in the retry decision
Remediation_InternalFirst(message) ==
    IF Includes(message, "500") \/ Includes(message, "INTERNAL")
    THEN <<InternalErrorResponse>>
    ELSE IF Includes(message, "429") \/ Includes(message, "RESOURCE_EXHAUSTED")
    THEN <<QuotaResponse>>
    ELSE IF Includes(message, "API_KEY_INVALID") \/ Includes(message, "invalid API key")
    THEN <<InvalidKeyResponse>>
    ELSE <<>>

\* a slip: the invalid-key test placed before the quota test
Remediation_InvalidKeyFirst(message) ==
    IF Includes(message, "API_KEY_INVALID") \/ Includes(message, "invalid API key")
    THEN <<InvalidKeyResponse>>
    ELSE IF Includes(message, "429") \/ Includes(message, "RESOURCE_EXHAUSTED")
    THEN <<QuotaResponse>>
    ELSE IF Includes(message, "500") \/ Includes(message, "INTERNAL")
    THEN <<InternalErrorResponse>>
    ELSE <<>>

\* the chain of ifs after the retry decision: <<response>>, or <<>> for throw error
Remediation(message) ==
    IF Includes(message, "429") \/ Includes(message, "RESOURCE_EXHAUSTED")
    THEN <<QuotaResponse>>
    ELSE IF Includes(message, "API_KEY_INVALID") \/ Includes(message, "invalid API key")
    THEN <<InvalidKeyResponse>>
    ELSE IF Includes(message, "500") \/ Includes(message, "INTERNAL")
    THEN <<InternalErrorResponse>>
    ELSE <<>>

(***************************************************************************)
(* State of one call of consultAgent.                                      *)
(***************************************************************************)
VARIABLES
    pc,                 \* "start", "awaitModel", "awaitTool", "backoff", "done"
    userQuery,          \* the argument of consultAgent
    apiKey,             \* const apiKey
    sessions,           \* number of chat sessions created (ai.chats.create)
    retryCount,         \* let retryCount
    iterations,         \* let iterations (scoped to the try block)
    response,           \* let response (scoped to the try block): the last model
                        \* response; text and groundingChunks are filled in when the
                        \* code reads them, i.e. for the response the attempt returns
    callIdx,            \* position of the for loop in response.functionCalls
    functionResponses,  \* const functionResponses (scoped to one iteration)
    inflight,           \* the outbound request being awaited
    error,              \* the error caught by the catch block, NoError outside of it
    waits,              \* the delays of the backoff waits started so far, in ms
    outcome,            \* how the call ended: "none" while it runs, then "missingKey",
                        \* "success", "remediation", "generic" (the returns) or "raised"
    result,             \* the AgentResponse returned
    \* history of the turn, read by the properties only
    querySends,         \* number of times the user query was sent to the model
    rounds,             \* tool-result messages sent to the model in this attempt
    toolRequested,      \* a request to the Tool Executor was sent in this turn
    answered,           \* answered[i]: entries pushed for call i of `response`
    abandoned,          \* calls of earlier responses left with other than one entry
    rcvRound,           \* value of `rounds` when `response` was received
    owed,               \* calls of the last response with no entry sent back yet
    lastTool,           \* {o}: the tool invocation that completed last in this
                        \* iteration had outcome o; {} when there is none
    failures,           \* per failed model call: did its message look transient
    outstanding,        \* outbound requests sent and not yet settled
    resultSends,        \* tool-result messages sent to the model in this turn
    lostTools,          \* tools requested in the last iteration of a failed attempt
    \* state of the App component (src/unnamed/part_000) and of its handleSend
    input,              \* useState(''): the text of the input field
    messages,           \* useState<Message[]>([]): the conversation shown
    isThinking,         \* useState(false)
    awaited,            \* queries of the consultAgent calls handleSend is awaiting
    \* history, for the properties only
    accepted,           \* submissions that passed the guard of handleSend
    blocked,            \* a submission was made while isThinking was true
    settled             \* outcomes of the awaited calls, in the order they settled

agentVars == << pc, userQuery, apiKey, sessions, retryCount, iterations, response, callIdx,
           functionResponses, inflight, error, waits, outcome, result, querySends,
           rounds, toolRequested, answered, abandoned, rcvRound, owed, lastTool,
           failures, outstanding, resultSends, lostTools >>

uiVars == << input, messages, isThinking, awaited, accepted, blocked, settled >>

vars == << agentVars, uiVars >>

Init ==
    /\ pc = "start"
    /\ userQuery \in Queries
    /\ apiKey = Undefined
    /\ sessions = 0
    /\ retryCount = 0
    /\ iterations = 0
    /\ response = NoResponse
    /\ callIdx = 0
    /\ functionResponses = <<>>
    /\ inflight = NoRequest
    /\ error = NoError
    /\ waits = <<>>
    /\ outcome = "none"
    /\ result = NoResult
    /\ querySends = 0
    /\ rounds = 0
    /\ toolRequested = FALSE
    /\ answered = <<>>
    /\ abandoned = 0
    /\ rcvRound = 0
    /\ owed = {}
    /\ lastTool = {}
    /\ failures = <<>>
    /\ outstanding = 0
    /\ resultSends = 0
    /\ lostTools = {}
    /\ input = ""
    /\ messages = <<>>
    /\ isThinking = FALSE
    /\ awaited = <<>>
    /\ accepted = 0
    /\ blocked = FALSE
    /\ settled = <<>>

\* return value; : the call ends
Return(site, value) ==
    /\ pc' = "done"
    /\ outcome' = site
    /\ result' = value
    /\ inflight' = NoRequest

\* throw error; : the call ends without a value
Throw ==
    /\ pc' = "done"
    /\ outcome' = "raised"
    /\ result' = NoResult
    /\ inflight' = NoRequest

\* the locals of the try block go out of scope
LeaveTry ==
    /\ iterations' = 0
    /\ response' = NoResponse
    /\ callIdx' = 0
    /\ functionResponses' = <<>>

\* calls of `response` that were left with no entry, or with several
Unsettled == Cardinality({i \in DOMAIN answered : answered[i] # 1})

\* while (retryCount < maxRetries) { try { let response = await chat.sendMessage(...)
\* and, when the loop ends, the last return of the function
EnterAttempt(count) ==
    IF count < maxRetries
    THEN /\ pc' = "awaitModel"
         /\ inflight' = QueryMessage(userQuery)
         /\ querySends' = querySends + 1
         /\ rounds' = 0
         /\ outstanding' = outstanding + 1
         /\ UNCHANGED << outcome, result >>
    ELSE /\ Return("generic", GenericFailureResponse)
         /\ UNCHANGED << querySends, rounds, outstanding >>

\* a slip: if (apiKey === undefined), which lets an empty key through
HasKey_Defined(key) == key # Undefined

\* if (!apiKey)
HasKey(key) == Truthy(key)

\* consultAgent is called: credential check, session, first attempt
Start ==
    /\ pc = "start"
    /\ UNCHANGED uiVars
    /\ \E env \in Envs :
         /\ apiKey' = Or(env.API_KEY, env.GEMINI_API_KEY)
         /\ IF ~HasKey(apiKey')
            THEN /\ Return("missingKey", MissingKeyResponse)
                 /\ UNCHANGED << sessions, querySends, rounds, outstanding >>
            ELSE /\ sessions' = sessions + 1
                 /\ EnterAttempt(0)
    /\ retryCount' = 0
    /\ UNCHANGED << userQuery, iterations, response, callIdx, functionResponses, error,
                    waits, toolRequested, answered, abandoned, rcvRound, owed, lastTool,
                    failures, resultSends, lostTools >>

\* a slip: the requests of all the calls are started together (Promise.all)
Batch_AllAtOnce(calls, idx) == IF idx = 1 THEN calls ELSE <<>>

\* for (const call of ...) { await fetch(...) }: the calls whose request is
\* started when the loop reaches position idx, before it suspends
Batch(calls, idx) == <<calls[idx]>>

\* a slip: let iterations declared before the retry loop, so that it carries
\* the iterations of the earlier attempts
StartCount_Carried(earlier) == earlier

\* let iterations = 0, at the start of every attempt
StartCount(earlier) == 0

\* a slip: iterations <= 5, one iteration too many
LoopContinues_OffByOne(calls, count) == calls # <<>> /\ count <= MaxIterations

\* while (response.functionCalls && iterations < 5)
LoopContinues(calls, count) == calls # <<>> /\ count < MaxIterations

\* the model answered: the loop test, then the first tool request of the next
\* iteration, or the return of the attempt
ModelResponds ==
    /\ pc = "awaitModel"
    /\ UNCHANGED uiVars
    /\ \E calls \in CallLists :
         LET count == IF inflight.kind = "query" THEN StartCount(resultSends)
                                                 ELSE iterations
         IN  /\ answered' = [i \in 1..Len(calls) |-> 0]
             /\ abandoned' = abandoned + Unsettled
             /\ owed' = 1..Len(calls)
             /\ rcvRound' = rounds
             /\ lastTool' = {}
             /\ IF LoopContinues(calls, count)
                THEN /\ response' = [NoResponse EXCEPT !.functionCalls = calls]
                     /\ iterations' = count + 1
                     /\ functionResponses' = <<>>
                     /\ callIdx' = 1
                     /\ inflight' = ToolRequest(calls[1])
                     /\ outstanding' = outstanding - 1 + Len(Batch(calls, 1))
                     /\ toolRequested' = TRUE
                     /\ pc' = "awaitTool"
                     /\ UNCHANGED << outcome, result >>
                ELSE /\ \E text \in Texts, chunks \in ChunkLists :
                          /\ response' = [text |-> text, functionCalls |-> calls,
                                          groundingChunks |-> chunks]
                          /\ Return("success", BuildResponse(response'))
                     /\ iterations' = count
                     /\ functionResponses' = <<>>
                     /\ callIdx' = 0
                     /\ outstanding' = outstanding - 1
                     /\ UNCHANGED toolRequested
    /\ UNCHANGED << userQuery, apiKey, sessions, retryCount, error, waits, querySends,
                    rounds, failures, resultSends, lostTools >>

\* a slip: a catch block that pushes nothing, so a rejected fetch leaves no entry
Push_SkipRejected(entries, call, o) ==
    IF o = <<>> THEN entries ELSE Append(entries, FunctionResponse(call, o))

\* a slip: the entry is pushed in the try block and again in a finally block
Push_Twice(entries, call, o) ==
    Append(Append(entries, FunctionResponse(call, o)), FunctionResponse(call, o))

\* try { fetch; res.json(); push } catch { push }: the entries after one invocation
Push(entries, call, o) == Append(entries, FunctionResponse(call, o))

\* an entry of a results message answers call c
Answers(item, c) ==
    /\ item.name = c.name
    /\ IF c.id = Undefined THEN "id" \notin DOMAIN item
                           ELSE "id" \in DOMAIN item /\ item.id = c.id

\* the message of the failure has one of the markers of isTransient
LooksTransient(m) ==
    m \cap {"500", "INTERNAL", "Service Unavailable", "Deadline Exceeded"} # {}

\* catch (error: any) { ... } of the attempt, up to its await, return or throw
Catch(m) ==
    /\ error' = m
    /\ failures' = Append(failures, LooksTransient(m))
    /\ IF ShouldRetry(m, retryCount)
       THEN /\ retryCount' = retryCount + 1
            /\ waits' = Append(waits, Delay(retryCount'))
            /\ pc' = "backoff"
            /\ inflight' = NoRequest
            /\ UNCHANGED << outcome, result >>
       ELSE /\ IF Remediation(m) # <<>>
               THEN Return("remediation", Remediation(m)[1])
               ELSE Throw
            /\ UNCHANGED << retryCount, waits >>
    /\ LeaveTry
    /\ answered' = <<>>
    /\ abandoned' = abandoned + Unsettled
    /\ rcvRound' = 0
    /\ outstanding' = outstanding - 1
    /\ lostTools' = lostTools \cup
                       {response.functionCalls[i].name : i \in DOMAIN response.functionCalls}
    /\ UNCHANGED << userQuery, apiKey, sessions, querySends, rounds, toolRequested, owed,
                    resultSends >>

\* a slip: only res.json() is inside the try block, a rejected fetch escapes
Caught_RepliesOnly(o) == o # <<>>

\* the try / catch around one tool call catches every failure of the invocation
Caught(o) == TRUE

\* the markers in the message of the error of a failed invocation
ToolErrorMarkers(o) == {}

\* one tool invocation completed (reply or failure): push its entry, then send
\* the next tool request, or the results of the iteration to the model; an
\* error that the inner catch let through would reach the catch of the attempt
ToolCompletes ==
    /\ pc = "awaitTool"
    /\ UNCHANGED uiVars
    /\ \E o \in ToolOutcomes :
         LET calls == response.functionCalls
             entries == Push(functionResponses, calls[callIdx], o)
         IN  /\ lastTool' = {o}
             /\ IF Caught(o)
                THEN /\ functionResponses' = entries
                     /\ answered' = [answered EXCEPT
                                      ![callIdx] = @ + Len(entries) - Len(functionResponses)]
                     /\ IF callIdx < Len(calls)
                        THEN /\ callIdx' = callIdx + 1
                             /\ inflight' = ToolRequest(calls[callIdx + 1])
                             /\ pc' = "awaitTool"
                             /\ outstanding' =
                                  outstanding - 1 + Len(Batch(calls, callIdx + 1))
                             /\ UNCHANGED << rounds, owed, resultSends >>
                        ELSE /\ inflight' = ResultsMessage(entries)
                             /\ pc' = "awaitModel"
                             /\ rounds' = rounds + 1
                             /\ resultSends' = resultSends + 1
                             /\ outstanding' = outstanding - 1 + 1
                             /\ owed' = {i \in owed :
                                           \A j \in DOMAIN inflight'.items :
                                               ~Answers(inflight'.items[j], calls[i])}
                             /\ UNCHANGED callIdx
                     /\ UNCHANGED << userQuery, apiKey, sessions, retryCount, iterations,
                                     response, error, waits, outcome, result, querySends,
                                     toolRequested, abandoned, rcvRound, failures,
                                     lostTools >>
                ELSE Catch(ToolErrorMarkers(o))

\* a model call (chat.sendMessage) failed
ModelFails ==
    /\ pc = "awaitModel"
    /\ UNCHANGED uiVars
    /\ \E m \in ErrorMessages : Catch(m)
    /\ lastTool' = {}

\* a slip: new Promise(() => setTimeout(...)) never calls resolve
TimerResolves_Never(delay) == FALSE

\* new Promise(resolve => setTimeout(resolve, delay)) resolves once the timer
\* of `delay` milliseconds has fired, whatever the delay
TimerResolves(delay) == delay \in Nat

\* the backoff timer fired: continue; the next attempt begins
BackoffElapses ==
    /\ pc = "backoff"
    /\ UNCHANGED uiVars
    /\ TimerResolves(waits[Len(waits)])
    /\ error' = NoError
    /\ EnterAttempt(retryCount)
    /\ UNCHANGED << userQuery, apiKey, sessions, retryCount, iterations, response,
                    callIdx, functionResponses, waits, toolRequested, answered,
                    abandoned, rcvRound, owed, lastTool, failures, resultSends, lostTools >>

Next ==
    \/ Start
    \/ ModelResponds
    \/ ToolCompletes
    \/ ModelFails
    \/ BackoffElapses

Spec == Init /\ [][Next]_vars

\* every awaited model call and tool request settles, every backoff timer
\* fires, and the call of consultAgent is started
FairSpec ==
    /\ Spec
    /\ WF_vars(Start)
    /\ WF_vars(ModelResponds \/ ModelFails)
    /\ WF_vars(ToolCompletes)
    /\ WF_vars(BackoffElapses)

(***************************************************************************)
(* The App component of src/unnamed/part_000: the input field, the list of *)
(* messages and handleSend, which awaits consultAgent.  React re-renders   *)
(* between two events, so a handler reads the state left by the previous   *)
(* one.  The id and the timestamp of a message are left out.  The call of  *)
(* consultAgent is one await here: it ends with one of the values          *)
(* consultAgent returns, or it raises.                                     *)
(***************************************************************************)
MaxSubmits == 2    \* submissions accepted in one behaviour
MaxNotices == 1    \* OAuth notices appended in one behaviour

\* texts of the input field
Inputs == {"", "  ", "List my repos"}

\* input.trim()
Trim(text) == IF text = "  " THEN "" ELSE text

ErrorText == "Error: Failed to connect to the brain. Please try again."

ConnectedText == "Successfully connected to **github**."

\* the optional field sources of a message is <<>> (absent) or <<sources>>
UserMessage(text) == [role |-> "user", content |-> text, sources |-> <<>>]

AssistantMessage(r) ==
    [role |-> "assistant", content |-> r.text, sources |-> <<r.sources>>]

ErrorMessage == [role |-> "assistant", content |-> ErrorText, sources |-> <<>>]

\* the message of the OAuth listener, appended whenever a provider connects
ConnectedMessage == [role |-> "assistant", content |-> ConnectedText, sources |-> <<>>]

\* values consultAgent returns: the fixed responses, and the response built
\* from a final model response with at most one grounding chunk
AgentResults ==
    {MissingKeyResponse, QuotaResponse, InvalidKeyResponse, InternalErrorResponse}
    \cup {BuildResponse([text |-> t, functionCalls |-> <<>>, groundingChunks |-> g]) :
            t \in Texts, g \in {<<>>} \cup {<< <<c>> >> : c \in Chunks}}

\* a slip: if (isThinking) return; without the test of the input
Accepts_NoBlankTest(text, thinking) == ~thinking

\* if (!input.trim() || isThinking) return;
Accepts(text, thinking) == ~(Trim(text) = "" \/ thinking)

\* a slip: setIsThinking(false) as the last statement of the try block
ThinkingAfter_NoFinally(raised) == raised

\* finally { setIsThinking(false) }
ThinkingAfter(raised) == FALSE

\* onChange of the input field (disabled while isThinking), example buttons
TypeInput ==
    /\ ~isThinking
    /\ \E text \in Inputs : input' = text
    /\ UNCHANGED << messages, isThinking, awaited, accepted, blocked, settled >>
    /\ UNCHANGED agentVars

\* the form is submitted: handleSend up to await consultAgent(input)
Submit ==
    /\ Accepts(input, isThinking) => accepted < MaxSubmits
    /\ IF Accepts(input, isThinking)
       THEN /\ messages' = Append(messages, UserMessage(input))
            /\ input' = ""
            /\ isThinking' = TRUE
            /\ awaited' = Append(awaited, input)
            /\ accepted' = accepted + 1
            /\ UNCHANGED blocked
       ELSE /\ blocked' = (blocked \/ isThinking)
            /\ UNCHANGED << input, messages, isThinking, awaited, accepted >>
    /\ UNCHANGED settled
    /\ UNCHANGED agentVars

\* consultAgent returned: the rest of the try block, then finally
AgentReturns ==
    /\ awaited # <<>>
    /\ \E r \in AgentResults :
         /\ messages' = Append(messages, AssistantMessage(r))
         /\ settled' = Append(settled, <<r>>)
    /\ isThinking' = ThinkingAfter(FALSE)
    /\ awaited' = Tail(awaited)
    /\ UNCHANGED << input, accepted, blocked >>
    /\ UNCHANGED agentVars

\* consultAgent raised: the catch block, then finally
AgentRaises ==
    /\ awaited # <<>>
    /\ messages' = Append(messages, ErrorMessage)
    /\ settled' = Append(settled, <<>>)
    /\ isThinking' = ThinkingAfter(TRUE)
    /\ awaited' = Tail(awaited)
    /\ UNCHANGED << input, accepted, blocked >>
    /\ UNCHANGED agentVars

\* window message OAUTH_AUTH_SUCCESS: the listener appends its notice
OAuthConnected ==
    /\ Cardinality({i \in DOMAIN messages : messages[i] = ConnectedMessage}) < MaxNotices
    /\ messages' = Append(messages, ConnectedMessage)
    /\ UNCHANGED << input, isThinking, awaited, accepted, blocked, settled >>
    /\ UNCHANGED agentVars

UiNext ==
    \/ TypeInput
    \/ Submit
    \/ AgentReturns
    \/ AgentRaises
    \/ OAuthConnected

UiSpec == Init /\ [][UiNext]_vars

(***************************************************************************)
(* Properties of the turn.                                                 *)
(***************************************************************************)

\* C1: with no Model Service credential (API_KEY and GEMINI_API_KEY both unset
\* or empty) the turn ends at once with the missing-key response and empty
\* sources; no session is created, no model call made, no tool request sent.
C1_MissingKeyShortCircuits ==
    (pc # "start" /\ apiKey \in {Undefined, ""}) =>
        /\ pc = "done"
        /\ outcome = "missingKey"
        /\ result = MissingKeyResponse
        /\ result.sources = <<>>
        /\ sessions = 0
        /\ querySends = 0
        /\ rounds = 0
        /\ inflight = NoRequest
        /\ ~toolRequested

C1_Witness == pc = "done" /\ apiKey = "" /\ outcome = "missingKey"

\* C2: an attempt in which no model call fails and every response carries tool
\* calls runs exactly 5 iterations of the function-call loop (5 result messages
\* sent), then returns the response built from the last model response; the
\* loop never runs a sixth iteration.
C2_LoopStopsAtFive ==
    /\ iterations <= 5
    /\ rounds <= 5
    /\ (pc = "done" /\ outcome = "success" /\ response.functionCalls # <<>>) =>
          /\ iterations = 5
          /\ rounds = 5
          /\ result = BuildResponse(response)

C2_Witness ==
    /\ pc = "done"
    /\ outcome = "success"
    /\ response.functionCalls # <<>>
    /\ iterations = 5

\* C3: the results message of an iteration has one entry per call of the
\* response being processed, and entry i carries the name and the id of call i,
\* whatever mix of tool invocations succeeded and failed.
C3_ResultsMatchCalls ==
    (pc = "awaitModel" /\ inflight.kind = "results") =>
        /\ Len(inflight.items) = Len(response.functionCalls)
        /\ \A i \in DOMAIN inflight.items :
              Answers(inflight.items[i], response.functionCalls[i])

C3_Witness ==
    /\ pc = "awaitModel"
    /\ inflight.kind = "results"
    /\ Len(inflight.items) = 2
    /\ response.functionCalls[1] # response.functionCalls[2]
    /\ "error" \in DOMAIN inflight.items[1].response
    /\ "content" \in DOMAIN inflight.items[2].response

\* C4 as stated: every ToolCall received in the turn gets exactly one
\* ToolResult, the calls of the response received at the iteration cap included.
C4_EveryCallAnsweredOnce ==
    pc = "done" => (abandoned = 0 /\ \A i \in DOMAIN answered : answered[i] = 1)

\* C4 amended: every ToolCall of a response received before the fifth iteration
\* of its attempt has run gets exactly one ToolResult before anything else is
\* sent to the model, and no ToolCall ever gets two; the ToolCalls of the
\* response received after the fifth iteration get none.
C4_CallsBelowCapAnsweredOnce ==
    /\ abandoned = 0
    /\ \A i \in DOMAIN answered : answered[i] <= 1
    /\ pc = "awaitModel" => \A i \in DOMAIN answered : answered[i] = 1
    /\ pc = "done" => \A i \in DOMAIN answered : answered[i] = 0 /\ rcvRound = 5

C4_Witness ==
    /\ pc = "done"
    /\ outcome = "success"
    /\ rcvRound = 5
    /\ Len(answered) = 2
    /\ answered[1] = 0

\* C5: while a model call is outstanding no call of the last response is left
\* without an entry sent back: the only model call issued after a response
\* with ToolCalls is the message carrying an entry for each of them, and the
\* query of a retry attempt is sent only after such a message.
C5_NoModelCallWhileOwed == pc = "awaitModel" => owed = {}

C5_Witness ==
    /\ pc = "awaitModel"
    /\ inflight.kind = "query"
    /\ retryCount >= 1
    /\ toolRequested
    /\ owed = {}

\* the turn ended on its failure, after which no wait was started
EndedOnFailure == pc = "done" /\ outcome \in {"remediation", "raised"}
                  /\ Len(waits) = Len(failures) - 1

\* C6 as stated: a failure whose message contains "429" is never followed by a
\* backoff wait or another attempt and ends the turn with the quota response,
\* whatever else the message contains and whatever the attempt.
C6_Quota429NeverRetried ==
    "429" \in error => (EndedOnFailure /\ result = QuotaResponse)

\* C6 amended: a failure whose message contains "429" ends the turn with the
\* quota response, without backoff wait or further attempt, when the message
\* contains none of the transient markers or the failure is that of the third
\* attempt; when it also contains a transient marker, on attempts 1 and 2, the
\* failure is retried after a backoff wait.
C6_Quota429UnlessTransient ==
    "429" \in error =>
        IF LooksTransient(error) /\ Len(failures) < 3
        THEN pc = "backoff" /\ Len(waits) = Len(failures)
        ELSE EndedOnFailure /\ outcome = "remediation" /\ result = QuotaResponse

C6_Witness ==
    /\ pc = "done"
    /\ "429" \in error
    /\ "500" \in error
    /\ Len(failures) = 3
    /\ result = QuotaResponse

\* C7: when attempts 1 and 2 fail with transient-looking messages and attempt 3
\* succeeds, the turn returns the response of attempt 3 and exactly two backoff
\* waits occurred, of 2 s then 4 s.
C7_TwoTransientThenSuccess ==
    /\ (failures = <<TRUE>> /\ pc \in {"backoff", "awaitModel", "awaitTool"}) =>
          waits = <<2000>>
    /\ (pc = "done" /\ outcome = "success" /\ failures = <<TRUE, TRUE>>) =>
          /\ waits = <<2000, 4000>>
          /\ querySends = 3
          /\ error = NoError
          /\ result = BuildResponse(response)
          /\ result \notin {QuotaResponse, InvalidKeyResponse, InternalErrorResponse,
                            GenericFailureResponse, MissingKeyResponse}

C7_Witness ==
    /\ pc = "done"
    /\ outcome = "success"
    /\ failures = <<TRUE, TRUE>>
    /\ waits = <<2000, 4000>>

\* C8: a turn raises an error only for a failure whose message matches none of
\* the transient, quota and invalid-key predicates; a failure matching one of
\* them ends the turn with a returned remediation response.
C8_RaisesOnlyUnclassified ==
    (pc = "done" /\ error # NoError) =>
        IF error \cap Markers = {}
        THEN outcome = "raised"
        ELSE outcome = "remediation"

\* the sources the claim describes: the chunks with a web citation, in the
\* order of the response, each mapped to its uri and title
IsCitationsOf(sources, chunkList) ==
    LET cs == IF chunkList = <<>> THEN <<>> ELSE chunkList[1]
        cited == {i \in DOMAIN cs : cs[i].web # <<>>}
    IN  /\ Len(sources) = Cardinality(cited)
        /\ \A i \in cited :
              LET k == Cardinality({j \in cited : j <= i})
              IN  sources[k] = [uri |-> cs[i].web[1].uri, title |-> cs[i].web[1].title]

\* C9 as stated: a successful turn returns the text of the last model response
\* verbatim, and as sources its web-cited grounding chunks in order.
C9_TextVerbatim ==
    (pc = "done" /\ outcome = "success") =>
        /\ result.text = response.text
        /\ IsCitationsOf(result.sources, response.groundingChunks)

\* C9 amended: a successful turn returns the text of the last model response
\* of the successful attempt verbatim when that text is not empty, and the
\* placeholder "Task completed." when it is empty or absent; the sources are
\* that response's web-cited grounding chunks as {uri, title}, in order and
\* without deduplication (none when it has no grounding chunks).
C9_TextOrPlaceholder ==
    (pc = "done" /\ outcome = "success") =>
        /\ result.text = IF response.text \in {"", Undefined}
                         THEN "Task completed." ELSE response.text
        /\ IsCitationsOf(result.sources, response.groundingChunks)

C9_Witness ==
    /\ pc = "done"
    /\ outcome = "success"
    /\ rcvRound >= 1
    /\ result.text = "Here are your repos: r1."
    /\ Len(result.sources) = 2
    /\ result.sources[1] = result.sources[2]

\* C10: a failing tool invocation (rejected fetch, non-2xx reply, malformed
\* body) does not end the turn, does not reach the catch block of the attempt
\* and uses up no retry: the next call of the iteration is requested, or after
\* the last call the results of the whole iteration are sent to the model.
C10_ToolFailureIsolated ==
    [][ (pc = "awaitTool" /\ \E o \in lastTool' : ToolFailed(o)) =>
          /\ outcome' = "none"
          /\ error' = NoError
          /\ failures' = failures
          /\ retryCount' = retryCount
          /\ waits' = waits
          /\ querySends' = querySends
          /\ IF callIdx < Len(response.functionCalls)
             THEN /\ pc' = "awaitTool"
                  /\ inflight' = ToolRequest(response.functionCalls[callIdx + 1])
             ELSE /\ pc' = "awaitModel"
                  /\ inflight'.kind = "results"
                  /\ Len(inflight'.items) = Len(response.functionCalls) ]_vars

C10_Witness ==
    /\ pc = "awaitTool"
    /\ callIdx = 2
    /\ \E o \in lastTool : ToolFailed(o)
    /\ "error" \in DOMAIN functionResponses[1].response

\* C11: the function-call iteration counter never exceeds 5 and the retry
\* counter never exceeds 3; a turn makes at most 3 attempts (the user query is
\* sent at most 3 times), i.e. at most 2 retries, each after one backoff wait.
C11_CountersBounded ==
    /\ iterations <= 5
    /\ retryCount <= 3
    /\ querySends <= 3
    /\ Len(waits) <= 2
    /\ Len(failures) <= 3

C11_Witness ==
    /\ pc = "awaitModel"
    /\ querySends = 3
    /\ retryCount = 2
    /\ iterations = 5

\* the markers of the three predicates of the classifier
TransientMarkers == {"500", "INTERNAL", "Service Unavailable", "Deadline Exceeded"}

QuotaMarkers == {"429", "RESOURCE_EXHAUSTED"}

InvalidKeyMarkers == {"API_KEY_INVALID", "invalid API key"}

\* C12: when all 3 attempts fail with messages matching the transient
\* predicate (here: with transient markers only), the turn returns the
\* internal-error remediation response, whichever of the four markers it is.
C12_ExhaustedTransientIsInternalError ==
    (pc = "done" /\ failures = <<TRUE, TRUE, TRUE>>
       /\ error # {} /\ error \subseteq TransientMarkers) =>
        (outcome = "remediation" /\ result = InternalErrorResponse)

\* C13: a turn that exhausts its retries on a transient-looking failure with no
\* dedicated remediation text returns the generic failure response instead of
\* raising the error.
C13_ExhaustedReturnsGeneric ==
    (pc = "done" /\ failures = <<TRUE, TRUE, TRUE>>
       /\ error # {} /\ error \subseteq {"Service Unavailable", "Deadline Exceeded"}) =>
        (outcome = "generic" /\ result = GenericFailureResponse)

\* C14: a failure whose message matches no predicate is re-raised on the
\* attempt where it occurs: no backoff wait and no further attempt follow it,
\* whatever the attempt, and no AgentResponse is returned.
C14_UnclassifiedRaisedAtOnce ==
    (error # NoError /\ error \cap Markers = {}) =>
        /\ pc = "done"
        /\ outcome = "raised"
        /\ result = NoResult
        /\ Len(waits) = Len(failures) - 1
        /\ querySends = Len(failures)

C14_Witness ==
    /\ pc = "done"
    /\ outcome = "raised"
    /\ error = {}
    /\ Len(failures) = 1
    /\ waits = <<>>

\* C15: a failure classified QuotaExhausted or InvalidKey (no transient marker;
\* a quota marker, or else an invalid-key marker) ends the turn on the attempt
\* where it occurs with the matching remediation response, with no backoff wait
\* and no further model call, also when attempts remain.
C15_QuotaAndInvalidKeyEndTurn ==
    (error # NoError /\ error \cap TransientMarkers = {}
       /\ error \cap (QuotaMarkers \cup InvalidKeyMarkers) # {}) =>
        /\ pc = "done"
        /\ outcome = "remediation"
        /\ result = IF error \cap QuotaMarkers # {} THEN QuotaResponse
                                                    ELSE InvalidKeyResponse
        /\ Len(waits) = Len(failures) - 1
        /\ querySends = Len(failures)
        /\ inflight = NoRequest

C15_Witness ==
    /\ pc = "done"
    /\ error = {"API_KEY_INVALID"}
    /\ result = InvalidKeyResponse
    /\ Len(failures) = 1
    /\ retryCount = 0

\* C16 as stated: the remediation text is that of the earliest matching
\* predicate in the order transient, quota, invalid key: a message with "500"
\* or "INTERNAL" that ends the turn yields the internal-error text.
C16_FirstMatchDecidesText ==
    (pc = "done" /\ error # NoError /\ error \cap {"500", "INTERNAL"} # {}) =>
        result = InternalErrorResponse

\* C16 amended: the retry decision tests the transient markers first, so a
\* message with a transient marker is retried on attempts 1 and 2 whatever
\* else it contains; the remediation text of the failure that ends the turn
\* follows its own order: quota markers, then invalid-key markers, then "500"
\* or "INTERNAL" (a message with "500" and "429" yields the quota text once
\* retries are exhausted).
C16_RetryFirstThenQuotaOrder ==
    /\ (error # NoError /\ error \cap TransientMarkers # {} /\ Len(failures) < 3) =>
          pc = "backoff"
    /\ (pc = "done" /\ error # NoError /\ error \cap QuotaMarkers # {}) =>
          result = QuotaResponse
    /\ (pc = "done" /\ error # NoError /\ error \cap QuotaMarkers = {}
          /\ error \cap InvalidKeyMarkers # {}) =>
          result = InvalidKeyResponse
    /\ (pc = "done" /\ error # NoError
          /\ error \cap (QuotaMarkers \cup InvalidKeyMarkers) = {}
          /\ error \cap {"500", "INTERNAL"} # {}) =>
          result = InternalErrorResponse

C16_Witness ==
    /\ pc = "done"
    /\ error = {"500", "429"}
    /\ failures = <<TRUE, TRUE, TRUE>>
    /\ result = QuotaResponse

\* C17: at every point of a turn at most one outbound request (model call or
\* tool request) is outstanding, and the tool requests of an iteration go out
\* one at a time in call order: the request for call i+1 is sent only once the
\* invocations of calls 1..i have completed or failed.
C17_OneRequestAtATime ==
    /\ outstanding <= 1
    /\ outstanding = 1 <=> inflight # NoRequest
    /\ pc = "awaitTool" =>
          /\ inflight = ToolRequest(response.functionCalls[callIdx])
          /\ Len(functionResponses) = callIdx - 1
          /\ \A i \in DOMAIN answered : answered[i] = IF i < callIdx THEN 1 ELSE 0

C17_Witness ==
    /\ pc = "awaitTool"
    /\ callIdx = 2
    /\ outstanding = 1
    /\ response.functionCalls[1] # response.functionCalls[2]

\* the entry pushed has the error-message variant { error: message }
IsErrorVariant(entry) == DOMAIN entry.response = {"error"}

\* C18: for each kind of tool-invocation failure (network error, non-2xx
\* reply of the Tool Executor, malformed reply body) the entry produced for
\* the call has the error-message variant and not the success-value variant.
C18_FailureYieldsErrorVariant ==
    \A o \in lastTool :
        ToolFailed(o) /\ functionResponses # <<>> =>
            IsErrorVariant(functionResponses[Len(functionResponses)])

\* C19: provided every outbound model call and tool request eventually
\* completes or fails and every backoff wait eventually elapses, every turn
\* eventually ends, by a return or by a raise; no turn loops forever.
C19_TurnEnds == <>(pc = "done" /\ outcome # "none")

C19_Witness ==
    /\ pc = "done"
    /\ outcome \in {"success", "remediation", "raised"}
    /\ querySends = maxRetries
    /\ Len(waits) = maxRetries - 1
    /\ toolRequested

\* C20: the iteration counter restarts at 0 at the beginning of every retry
\* attempt, so the cap of 5 is per attempt: an attempt sends at most 5
\* tool-result messages, a whole turn at most 15 (3 attempts x 5 iterations),
\* and a turn can send more than 5 (C20_Witness).
C20_CapIsPerAttempt ==
    /\ rounds <= MaxIterations
    /\ resultSends <= querySends * MaxIterations
    /\ resultSends <= maxRetries * MaxIterations
    /\ pc = "awaitModel" /\ inflight.kind = "query" => rounds = 0 /\ iterations = 0
    /\ pc = "awaitModel" /\ inflight.kind = "results" => iterations = rounds
    /\ pc = "awaitTool" => iterations = rounds + 1

C20_Witness ==
    /\ querySends = maxRetries
    /\ resultSends = maxRetries * MaxIterations
    /\ resultSends > MaxIterations

\* C21: a turn with a credential creates exactly one chat session, before the
\* first attempt; every retry attempt begins by sending the unchanged user
\* query (on that session, no other is created); what a failed attempt has
\* sent is not undone: the result messages and tool requests it issued stay
\* issued, and a tool it requested can be requested again (C21_Witness).
C21_OneSessionQueryResent ==
    /\ sessions = IF pc # "start" /\ HasKey(apiKey) THEN 1 ELSE 0
    /\ querySends >= 1 => sessions = 1
    /\ pc \in {"awaitModel", "awaitTool"} => querySends = retryCount + 1
    /\ pc = "backoff" => querySends = retryCount
    /\ pc = "awaitModel" /\ inflight.kind = "query" =>
          inflight.text = userQuery /\ userQuery \in Queries
    /\ lostTools # {} => toolRequested /\ resultSends >= 1 /\ failures # <<>>
    /\ resultSends >= rounds

C21_Witness ==
    /\ pc = "awaitTool"
    /\ retryCount >= 1
    /\ sessions = 1
    /\ inflight.tool \in lostTools
    /\ inflight.tool = "send_gmail"

IsUser(m) == m.role = "user"

\* an assistant message appended by handleSend, not by the OAuth listener
IsReply(m) == m.role = "assistant" /\ m # ConnectedMessage

\* messages of the first k that satisfy Test
CountIn(Test(_), k) == Cardinality({i \in 1..k : Test(messages[i])})

\* C22: in handleSend every accepted submission (non-blank input while
\* isThinking is false) appends exactly one user message and later exactly
\* one assistant message, the response of the agent or the fixed error
\* message when consultAgent raises, and isThinking is false again in both
\* cases; a submission made while isThinking is true starts no turn and
\* appends nothing.
C22_OneUserOneAssistantPerSubmission ==
    LET users == SelectSeq(messages, IsUser)
        replies == SelectSeq(messages, IsReply)
    IN  /\ Len(users) = accepted
        /\ Len(replies) = Len(settled)
        /\ Len(settled) + Len(awaited) = accepted
        /\ Len(awaited) <= 1
        /\ isThinking <=> awaited # <<>>
        /\ \A i \in DOMAIN users : Trim(users[i].content) # ""
        /\ \A i \in DOMAIN replies :
              replies[i] = IF settled[i] = <<>> THEN ErrorMessage
                                                ELSE AssistantMessage(settled[i][1])
        /\ \A k \in 0..Len(messages) :
              /\ CountIn(IsReply, k) <= CountIn(IsUser, k)
              /\ CountIn(IsUser, k) <= CountIn(IsReply, k) + 1

C22_Witness ==
    /\ blocked
    /\ accepted = MaxSubmits
    /\ ~isThinking
    /\ \E i, j \in DOMAIN settled : settled[i] = <<>> /\ settled[j] # <<>>
    /\ \E i \in DOMAIN messages : messages[i] = ConnectedMessage

====
